---- MODULE Spec2Model ----
(***************************************************************************)
(* Model of src/main.py, the "SMS Finance Tracker" service: the /sms       *)
(* admission handler (sms_webhook), the report computation (calc_report),  *)
(* the Telegram command handler (tg_webhook) and the status endpoint       *)
(* (read_root), working against a Google Sheets ledger (read_all_rows,     *)
(* append_row) and the Telegram notifier (send_telegram).                  *)
(*                                                                         *)
(* Strings are modelled as sequences of tokens, so that concatenation,     *)
(* upper-casing, substring tests and parsing are computed and not assumed. *)
(* A sheet cell is such a string, a row a sequence of cells, the sheet a   *)
(* sequence of rows.  Cyrillic keywords are transliterated.                *)
(* Time is counted in ticks of half a day (DayLen ticks make one day).     *)
(*                                                                         *)
(* A /sms request is a sequence of steps, one per call to Sheets or to     *)
(* Telegram; the code holds no lock, so the steps of the requests served   *)
(* by different workers interleave.  A Telegram update touches the shared  *)
(* state once, when it reads the sheet, and is one step.  The response of  *)
(* a request stays visible in sms, tg or root until Return hands it back.  *)
(***************************************************************************)
EXTENDS Integers, Sequences, FiniteSets, TLC

(* ------------------------------ bounds -------------------------------- *)
\* number of /sms requests the model lets reach the append calls
MaxAdmissions == 2
\* last clock value
MaxNow == 2
\* clock ticks per calendar day, the unit of timedelta(days=1)
DayLen == 2
\* number of rows of the sheets the report is computed from in SpecReport
MaxRows == 2

(* --------------------------- configuration ---------------------------- *)
\* os.environ["TELEGRAM_CHAT_ID"]
TELEGRAM_CHAT_ID == <<"42">>

\* the deployments considered: ALLOWED_SENDERS unset ("".split(",") = [""])
\* and ALLOWED_SENDERS = "SB"
AllowLists == { << <<>> >>, << <<"SB">> >> }

(* ------------------------------ strings ------------------------------- *)
\* str.upper, token by token
UpperTok(t) == IF t = "sb" THEN "SB" ELSE IF t = "x" THEN "X" ELSE t

upper(s) == [i \in 1..Len(s) |-> UpperTok(s[i])]

\* str.lower, token by token
LowerTok(t) ==
  IF t = "SB" THEN "sb"
  ELSE IF t = "X" THEN "x"
  ELSE IF t = "/TODAY" THEN "/today"
  ELSE IF t = "/START" THEN "/start"
  ELSE t

lower(s) == [i \in 1..Len(s) |-> LowerTok(s[i])]

\* Python's "a in b" on strings
contains(a, b) ==
  \E i \in 0..(Len(b) - Len(a)) : \A j \in 1..Len(a) : b[i + j] = a[j]

\* the float a numeric token denotes
NumVal == ("50" :> 50) @@ ("100" :> 100) @@ ("7" :> 7)

\* the instant an ISO-8601 token with UTC offset denotes
IsoVal ==
  ("old" :> -5) @@ ("t0" :> 0) @@ ("t1" :> 1) @@ ("t2" :> 2) @@ ("t3" :> 3) @@ ("t4" :> 4)
  @@ ("t5" :> 5) @@ ("t6" :> 6)

\* the instant an ISO-8601 token without offset (a naive datetime) denotes
NaiveVal == ("n1" :> 1) @@ ("n2" :> 2)

\* datetime.isoformat() of an aware UTC datetime
isoformat(n) == << CHOOSE t \in DOMAIN IsoVal : IsoVal[t] = n >>

\* the cell Sheets returns for a float written with USER_ENTERED
NumCell(n) == << CHOOSE t \in DOMAIN NumVal : NumVal[t] = n >>

\* the value of a missing amount (Python's None)
NoneAmount == -1

\* the cell Sheets returns for a None written to it
NoneCell == <<>>

(* ------------------------------ parser -------------------------------- *)
make_id(sender, body, ts) == sender \o <<"|">> \o body \o <<"|">> \o ts

\* parse_amount with a default amount in place of None
parse_amount_default(text) ==
  LET num == {i \in 1..Len(text) : text[i] \in DOMAIN NumVal}
  IN IF num # {} THEN NumVal[text[CHOOSE i \in num : \A j \in num : i <= j]]
     ELSE 7

\* first number directly followed by a currency marker, else the first
\* number of the text, else None
parse_amount(text) ==
  LET cur == {i \in 1..(Len(text) - 1) :
                text[i] \in DOMAIN NumVal /\ text[i + 1] \in {"rub", "usd", "eur"}}
      num == {i \in 1..Len(text) : text[i] \in DOMAIN NumVal}
      first(S) == CHOOSE i \in S : \A j \in S : i <= j
  IN IF cur # {} THEN NumVal[text[first(cur)]]
     ELSE IF num # {} THEN NumVal[text[first(num)]]
     ELSE NoneAmount

detect_currency(text) ==
  LET has(t) == \E i \in 1..Len(text) : text[i] = t
  IN IF has("rub") THEN "RUB"
     ELSE IF has("eur") THEN "EUR"
     ELSE IF has("usd") THEN "USD"
     ELSE "RUB"

\* "pokupka" stands for the debit keywords, "zachislen" for the credit ones;
\* the texts modelled carry no card, merchant or balance phrase, so these
\* three fields keep the defaults of the data dict
parse_sber(text) ==
  LET has(t) == \E i \in 1..Len(text) : text[i] = t
  IN [type |-> IF has("pokupka") THEN "debit"
               ELSE IF has("zachislen") THEN "credit"
               ELSE "undefined",
      amount |-> parse_amount(text),
      currency |-> detect_currency(text),
      card_mask |-> NoneCell,
      merchant |-> <<"Unknown">>,
      balance_after |-> NoneCell]

(* ------------------------------ ledger -------------------------------- *)
header ==
  << <<"id">>, <<"ts">>, <<"amount">>, <<"currency">>, <<"type">>,
     <<"card_mask">>, <<"merchant">>, <<"balance_after">>, <<"source">>,
     <<"raw_text">> >>

\* read_all_rows letting the sheet through when the Sheets call failed
read_all_rows_stale(sheetNow, ok) == sheetNow

\* read_all_rows: the sheet, or [] when the Sheets call raises HttpError (any
\* other exception leaves the function; the callers model that case)
read_all_rows(sheetNow, ok) == IF ok THEN sheetNow ELSE <<>>

\* append_row putting the row above the rows of the sheet
append_row_front(sheetNow, row) == <<row>> \o sheetNow

\* append_row writing over the last row instead of below it
append_row_overwrite(sheetNow, row) ==
  IF sheetNow = <<>> THEN <<row>> ELSE [sheetNow EXCEPT ![Len(sheetNow)] = row]

\* append_row when the Sheets call succeeds
append_row(sheetNow, row) == Append(sheetNow, row)

\* the data rows sms_webhook looks at
sms_data_rows(all_rows) ==
  IF all_rows # <<>> /\ all_rows[1] = header THEN Tail(all_rows) ELSE all_rows

existing_ids(all_rows) ==
  LET d == sms_data_rows(all_rows)
  IN {d[i][1] : i \in {j \in 1..Len(d) : d[j] # <<>>}}

\* new_row of sms_webhook
new_row(msg_id, ts, parsed, sender, body) ==
  << msg_id, ts, NumCell(parsed.amount), <<parsed.currency>>, <<parsed.type>>,
     parsed.card_mask, parsed.merchant, parsed.balance_after, sender, body >>

\* the sender test without its filter on empty entries of the list
sender_allowed_unfiltered(allowed, rawSender) ==
  \E k \in 1..Len(allowed) : contains(upper(allowed[k]), upper(rawSender))

\* the sender test of sms_webhook
sender_allowed(allowed, rawSender) ==
  \E k \in 1..Len(allowed) :
    allowed[k] # <<>> /\ contains(upper(allowed[k]), upper(rawSender))

(* ------------------------------ report -------------------------------- *)
\* datetime.fromisoformat followed by the comparison with the aware
\* start_date: "aware" with the instant, "TypeError" for a naive datetime
\* (naive and aware datetimes do not compare), "ValueError" otherwise
fromisoformat(cell) ==
  IF Len(cell) = 1 /\ cell[1] \in DOMAIN IsoVal
    THEN [kind |-> "aware", at |-> IsoVal[cell[1]]]
  ELSE IF Len(cell) = 1 /\ cell[1] \in DOMAIN NaiveVal
    THEN [kind |-> "TypeError", at |-> NaiveVal[cell[1]]]
  ELSE [kind |-> "ValueError", at |-> 0]

\* float(amount_str): the number, or NoneAmount for ValueError
float(cell) ==
  IF Len(cell) = 1 /\ cell[1] \in DOMAIN NumVal THEN NumVal[cell[1]]
  ELSE NoneAmount

\* one pass of the for loop of calc_report: does the row reach the tally
row_counted(row, start_date) ==
  /\ Len(row) >= 5
  /\ fromisoformat(row[2]).kind = "aware"
  /\ fromisoformat(row[2]).at >= start_date
  /\ float(row[3]) # NoneAmount

totals0 == [total_debit |-> 0, total_credit |-> 0, transactions_count |-> 0]

RECURSIVE tally_any_type(_, _, _, _)
\* the for loop of calc_report adding the amount of every row to the spend
tally_any_type(data_rows, i, start_date, acc) ==
  IF i > Len(data_rows) THEN acc
  ELSE IF row_counted(data_rows[i], start_date)
    THEN tally_any_type(data_rows, i + 1, start_date,
           [acc EXCEPT !.total_debit = @ + float(data_rows[i][3]),
                       !.transactions_count = @ + 1])
    ELSE tally_any_type(data_rows, i + 1, start_date, acc)

RECURSIVE tally(_, _, _, _)
\* the for loop of calc_report over data_rows[i..]
tally(data_rows, i, start_date, acc) ==
  IF i > Len(data_rows) THEN acc
  ELSE LET row == data_rows[i]
           amount == float(row[3])
           type_str == row[5]
       IN IF row_counted(row, start_date)
            THEN tally(data_rows, i + 1, start_date,
                   [total_debit |-> acc.total_debit
                                     + (IF type_str = <<"debit">> THEN amount ELSE 0),
                    total_credit |-> acc.total_credit
                                     + (IF type_str = <<"credit">> THEN amount ELSE 0),
                    transactions_count |-> acc.transactions_count + 1])
            ELSE tally(data_rows, i + 1, start_date, acc)

NoReport ==
  [raised |-> "none", total_credit |-> 0, total_debit |-> 0, total_net |-> 0,
   transactions_count |-> 0, days |-> 0]

\* calc_report on the rows read_all_rows returned at clock value nowT; the
\* record holds the numbers the returned text interpolates, or the
\* exception that leaves the function
calc_report(all_rows, nowT, days) ==
  LET start_date == nowT - days * DayLen
  IN IF all_rows # <<>> /\ all_rows[1] = <<>>
       THEN [NoReport EXCEPT !.raised = "IndexError", !.days = days]
     ELSE
       LET data_rows == IF all_rows # <<>> /\ all_rows[1][1] = <<"id">>
                          THEN Tail(all_rows) ELSE all_rows
           t == tally(data_rows, 1, start_date, totals0)
       IN [raised |-> "none",
           total_credit |-> t.total_credit,
           total_debit |-> t.total_debit,
           total_net |-> t.total_credit - t.total_debit,
           transactions_count |-> t.transactions_count,
           days |-> days]

(* ------------------------------- state -------------------------------- *)
\* The service is started in the last tick of day 0, so that a day boundary
\* lies within the MaxNow ticks the clock is followed.
VARIABLES
  sheet,       \* the rows of the "Transactions" sheet
  now,         \* the clock, datetime.now(timezone.utc)
  allowed,     \* ALLOWED_SENDERS
  req,         \* the /sms requests in flight, per request slot; beside the
               \* locals of sms_webhook a request records for the properties
               \* whether its payload carried received_at (given), whether
               \* its id was appended before it came in (prior), whether a
               \* store call failed on it (storeFail), whether its read
               \* failed on a sheet that held rows (hidRows) and how many
               \* rows its read returned (snap)
  admissions,  \* number of /sms requests that reached the append calls so far
  admittedIds, \* history: the ids appended for a payload that carried received_at
  admitDays,   \* history: the days on which a data row was appended
  notified,    \* history: number of send_telegram calls made by sms_webhook
  sms,         \* the response of the /sms request that just ended, if any
  tg,          \* the outcome of the Telegram update just handled, if any
  root         \* the response of the GET / request that just ended, if any

vars ==
  <<sheet, now, allowed, req, admissions, admittedIds, admitDays, notified,
    sms, tg, root>>

Reqs == {1, 2}

ReqIdle ==
  [pc |-> "idle", row |-> <<>>, given |-> FALSE, prior |-> FALSE,
   storeFail |-> FALSE, hidRows |-> FALSE, snap |-> 0]

SmsNone ==
  [status |-> "none", sender |-> <<>>, id |-> <<>>, body |-> <<>>,
   notify |-> "none", given |-> FALSE, prior |-> FALSE, storeFail |-> FALSE,
   hidRows |-> FALSE]

TgNone ==
  [handled |-> FALSE, has_message |-> FALSE, chat_id |-> <<>>, text |-> <<>>,
   readOutcome |-> "none", reply |-> "none", report |-> NoReport,
   sent |-> "none", result |-> "none"]

RootNone == [status |-> "none", timestamp |-> <<>>]

\* the payloads offered to /sms; none of the texts holds the separator of
\* make_id, so that distinct payloads have distinct ids
Senders == { <<"sb">>, <<"x">> }

Bodies == { <<"pokupka", "100", "rub">>, <<"pokupka">> }

\* received_at: absent (or empty), or a free text
ReceivedAts == { <<>>, <<"yesterday">> }

\* no response is waiting to be returned
Quiet == sms = SmsNone /\ tg = TgNone /\ root = RootNone

Init ==
  /\ sheet = <<>>
  /\ now = DayLen - 1
  /\ allowed \in AllowLists
  /\ req = [r \in Reqs |-> ReqIdle]
  /\ admissions = 0
  /\ admittedIds = {}
  /\ admitDays = {}
  /\ notified = 0
  /\ sms = SmsNone
  /\ tg = TgNone
  /\ root = RootNone

(* ------------------------------ /sms ---------------------------------- *)
\* sms_webhook from its entry to the point where it returns, raises or is
\* about to call append_row; readOutcome is what the Sheets read does
SmsReceive(r, sender, body, received_at, readOutcome) ==
  /\ Quiet
  /\ req[r].pc = "idle"
  /\ \A q \in Reqs : q < r => req[q].pc # "idle"
  /\ admissions < MaxAdmissions
  /\ LET ts == IF received_at # <<>> THEN received_at ELSE isoformat(now)
         msg_id == make_id(sender, body, ts)
         all_rows == read_all_rows(sheet, readOutcome = "ok")
         parsed == parse_sber(body)
         given == received_at # <<>>
         out == [SmsNone EXCEPT !.sender = sender, !.id = msg_id,
                                !.body = body, !.given = given,
                                !.prior = given /\ msg_id \in admittedIds,
                                !.storeFail = (readOutcome # "ok"),
                                !.hidRows = (readOutcome = "HttpError"
                                             /\ sheet # <<>>)]
     IN IF ~sender_allowed(allowed, sender)
          THEN /\ sms' = [SmsNone EXCEPT !.status = "403", !.sender = sender,
                                          !.body = body]
               /\ UNCHANGED <<req, admissions>>
        ELSE IF readOutcome = "TransportError"
          THEN /\ sms' = [out EXCEPT !.status = "500"]
               /\ UNCHANGED <<req, admissions>>
        ELSE IF msg_id \in existing_ids(all_rows)
          THEN /\ sms' = [out EXCEPT !.status = "duplicate"]
               /\ UNCHANGED <<req, admissions>>
        ELSE IF parsed.amount = NoneAmount
          THEN /\ sms' = [out EXCEPT !.status = "400"]
               /\ UNCHANGED <<req, admissions>>
        ELSE /\ sms' = SmsNone
             /\ admissions' = admissions + 1
             /\ req' = [req EXCEPT ![r] =
                  [pc |-> IF all_rows = <<>> THEN "hdr" ELSE "append",
                   row |-> new_row(msg_id, ts, parsed, sender, body),
                   given |-> given, prior |-> out.prior,
                   storeFail |-> out.storeFail, hidRows |-> out.hidRows,
                   snap |-> Len(all_rows)]]
  /\ UNCHANGED <<sheet, now, allowed, admittedIds, admitDays, notified, tg, root>>

\* the response of request slot r when it ends with the given status
response(r, status, notify, failed) ==
  [status |-> status, sender |-> req[r].row[9], id |-> req[r].row[1],
   body |-> req[r].row[10],
   notify |-> notify, given |-> req[r].given, prior |-> req[r].prior,
   storeFail |-> req[r].storeFail \/ failed, hidRows |-> req[r].hidRows]

\* append_row(header) of sms_webhook
SmsAppendHeader(r, ok) ==
  /\ Quiet
  /\ req[r].pc = "hdr"
  /\ IF ok
       THEN /\ sheet' = append_row(sheet, header)
            /\ req' = [req EXCEPT ![r].pc = "append"]
            /\ sms' = SmsNone
       ELSE /\ sheet' = sheet
            /\ req' = [req EXCEPT ![r] = ReqIdle]
            /\ sms' = response(r, "500", "none", TRUE)
  /\ UNCHANGED <<now, allowed, admissions, admittedIds, admitDays, notified,
                 tg, root>>

\* append_row(new_row) with a failure of the append passed over: the request
\* goes on to the notification
SmsAppendRow_unchecked(r, ok) ==
  /\ Quiet
  /\ req[r].pc = "append"
  /\ sheet' = IF ok THEN append_row(sheet, req[r].row) ELSE sheet
  /\ req' = [req EXCEPT ![r].pc = "notify"]
  /\ admittedIds' = IF ok /\ req[r].given THEN admittedIds \cup {req[r].row[1]}
                     ELSE admittedIds
  /\ admitDays' = IF ok THEN admitDays \cup {now \div DayLen} ELSE admitDays
  /\ sms' = SmsNone
  /\ UNCHANGED <<now, allowed, admissions, notified, tg, root>>

\* append_row(new_row) of sms_webhook
SmsAppendRow(r, ok) ==
  /\ Quiet
  /\ req[r].pc = "append"
  /\ IF ok
       THEN /\ sheet' = append_row(sheet, req[r].row)
            /\ req' = [req EXCEPT ![r].pc = "notify"]
            /\ admittedIds' = IF req[r].given THEN admittedIds \cup {req[r].row[1]}
                               ELSE admittedIds
            /\ admitDays' = admitDays \cup {now \div DayLen}
            /\ sms' = SmsNone
       ELSE /\ sheet' = sheet
            /\ req' = [req EXCEPT ![r] = ReqIdle]
            /\ UNCHANGED <<admittedIds, admitDays>>
            /\ sms' = response(r, "500", "none", TRUE)
  /\ UNCHANGED <<now, allowed, admissions, notified, tg, root>>

\* what send_telegram does with the outcome of the POST: "sent", the
\* RequestError it catches, or the HTTPStatusError of raise_for_status,
\* which is not a RequestError and leaves the function
send_telegram(outcome) ==
  IF outcome = "ok" THEN [sent |-> "sent", raised |-> FALSE]
  ELSE IF outcome = "RequestError" THEN [sent |-> "reqerr", raised |-> FALSE]
  ELSE [sent |-> "httperr", raised |-> TRUE]

SendOutcomes == {"ok", "RequestError", "HTTPStatusError"}

\* await send_telegram(notification_text) and the return of sms_webhook
SmsNotify(r, outcome) ==
  /\ Quiet
  /\ req[r].pc = "notify"
  /\ LET s == send_telegram(outcome)
     IN sms' = response(r, IF s.raised THEN "500" ELSE "ok", s.sent, FALSE)
  /\ req' = [req EXCEPT ![r] = ReqIdle]
  /\ notified' = notified + 1
  /\ UNCHANGED <<sheet, now, allowed, admissions, admittedIds, admitDays, tg, root>>

\* the clock advances
Tick ==
  /\ Quiet
  /\ now < MaxNow
  /\ now' = now + 1
  /\ UNCHANGED <<sheet, allowed, req, admissions, admittedIds, admitDays,
                 notified, sms, tg, root>>

(* --------------------------- /telegram -------------------------------- *)
\* the updates offered to the Telegram webhook
Texts ==
  { <<"/START">>, <<"/help">>, <<"/today">>, <<"/week">>, <<"/last30">>,
    <<"/cancel">> }

Updates ==
  {[has_message |-> FALSE, chat_id |-> <<>>, text |-> <<>>]}
  \cup {[has_message |-> TRUE, chat_id |-> <<"13">>, text |-> <<"/today">>]}
  \cup {[has_message |-> TRUE, chat_id |-> TELEGRAM_CHAT_ID, text |-> t] : t \in Texts}

\* report_days with the today report as the fallback of the command chain
report_days_fallback(text) ==
  IF text = <<"/week">> THEN 7
  ELSE IF text = <<"/last30">> THEN 30
  ELSE IF text \in {<<"/start">>, <<"/help">>} THEN 0
  ELSE 1

\* the days argument tg_webhook passes to calc_report, 0 for the texts that
\* compute no report
report_days(text) ==
  IF text = <<"/today">> THEN 1
  ELSE IF text = <<"/week">> THEN 7
  ELSE IF text = <<"/last30">> THEN 30
  ELSE 0

\* tg_webhook as a function of the update, the ledger, the clock and the
\* outcomes of the Sheets read and of the Telegram POST
tg_webhook(update, sheetNow, nowT, readOutcome, sendOutcome) ==
  LET text == lower(update.text)
      base == [TgNone EXCEPT !.handled = TRUE,
                             !.has_message = update.has_message,
                             !.chat_id = update.chat_id, !.text = update.text]
      s == send_telegram(sendOutcome)
      answered(b) == [b EXCEPT !.sent = s.sent,
                               !.result = IF s.raised THEN "error" ELSE "ok"]
  IN IF ~update.has_message THEN [base EXCEPT !.result = "ok"]
     ELSE IF update.chat_id # TELEGRAM_CHAT_ID THEN [base EXCEPT !.result = "ok"]
     ELSE IF text \in {<<"/start">>, <<"/help">>}
       THEN answered([base EXCEPT !.reply = "help"])
     ELSE IF report_days(text) # 0
       THEN IF readOutcome = "TransportError"
              THEN [base EXCEPT !.readOutcome = readOutcome, !.result = "error"]
            ELSE
              LET rep == calc_report(read_all_rows(sheetNow, readOutcome = "ok"),
                                     nowT, report_days(text))
                  b == [base EXCEPT !.readOutcome = readOutcome, !.report = rep]
              IN IF rep.raised # "none" THEN [b EXCEPT !.result = "error"]
                 ELSE answered([b EXCEPT !.reply = "report"])
     ELSE answered([base EXCEPT !.reply = "unknown"])

ReadOutcomes == {"ok", "HttpError", "TransportError"}

\* one update handled by tg_webhook
TgWebhook(update, readOutcome, sendOutcome) ==
  /\ Quiet
  /\ tg' = tg_webhook(update, sheet, now, readOutcome, sendOutcome)
  /\ UNCHANGED <<sheet, now, allowed, req, admissions, admittedIds, admitDays,
                 notified, sms, root>>

(* ------------------------------- GET / -------------------------------- *)
\* read_root: the status endpoint answers with the clock and touches nothing
read_root ==
  /\ Quiet
  /\ root' = [status |-> "ok", timestamp |-> isoformat(now)]
  /\ UNCHANGED <<sheet, now, allowed, req, admissions, admittedIds, admitDays,
                 notified, sms, tg>>

\* the response waiting is returned to its caller
Return ==
  /\ ~Quiet
  /\ sms' = SmsNone
  /\ tg' = TgNone
  /\ root' = RootNone
  /\ UNCHANGED <<sheet, now, allowed, req, admissions, admittedIds, admitDays,
                 notified>>

Next ==
  \/ \E r \in Reqs, sender \in Senders, body \in Bodies,
        received_at \in ReceivedAts, readOutcome \in ReadOutcomes :
       SmsReceive(r, sender, body, received_at, readOutcome)
  \/ \E r \in Reqs, ok \in BOOLEAN : SmsAppendHeader(r, ok)
  \/ \E r \in Reqs, ok \in BOOLEAN : SmsAppendRow(r, ok)
  \/ \E r \in Reqs, outcome \in SendOutcomes : SmsNotify(r, outcome)
  \/ \E update \in Updates, readOutcome \in ReadOutcomes,
        sendOutcome \in SendOutcomes :
       TgWebhook(update, readOutcome, sendOutcome)
  \/ read_root
  \/ Tick
  \/ Return

Spec == Init /\ [][Next]_vars

(* ------------------- the report on arbitrary sheets ------------------- *)
\* rows as read_all_rows may return them from a sheet edited by hand: the
\* header, an empty row, a short row, well-formed rows of either type, a row
\* of another type, rows whose amount or timestamp does not parse, a row
\* stamped before the model's epoch
SampleRow(ts, amount, type) == << <<"r">>, ts, amount, <<"RUB">>, type >>

RowSamples ==
  { header,
    <<>>,
    << <<"r">>, <<"t1">>, <<"100">> >>,
    SampleRow(<<"t1">>, <<"100">>, <<"debit">>),
    SampleRow(<<"t1">>, <<"50">>, <<"credit">>),
    SampleRow(<<"t1">>, <<"7">>, <<"undefined">>),
    SampleRow(<<"t1">>, <<"abc">>, <<"debit">>),
    SampleRow(<<"yesterday">>, <<"100">>, <<"debit">>),
    SampleRow(<<"n1">>, <<"100">>, <<"debit">>),
    SampleRow(<<"old">>, <<"100">>, <<"debit">>) }

SampleSheets == UNION {[1..n -> RowSamples] : n \in 0..MaxRows}

InitReport ==
  /\ sheet \in SampleSheets
  /\ now = DayLen - 1
  /\ allowed = << <<"SB">> >>
  /\ req = [r \in Reqs |-> ReqIdle]
  /\ admissions = 0
  /\ admittedIds = {}
  /\ admitDays = {}
  /\ notified = 0
  /\ sms = SmsNone
  /\ tg = TgNone
  /\ root = RootNone

NextReport ==
  \/ \E update \in Updates, readOutcome \in ReadOutcomes,
        sendOutcome \in SendOutcomes :
       TgWebhook(update, readOutcome, sendOutcome)
  \/ read_root
  \/ Tick
  \/ Return

SpecReport == InitReport /\ [][NextReport]_vars

TypeOK ==
  /\ now \in (DayLen - 1)..MaxNow
  /\ admissions \in 0..MaxAdmissions
  /\ notified \in 0..MaxAdmissions
  /\ \A r \in Reqs : req[r].pc \in {"idle", "hdr", "append", "notify"}

(* ------------------------------ claims -------------------------------- *)
\* number of data rows of a sheet that carry the id
IdCount(s, id) ==
  Cardinality({i \in 1..Len(s) : s[i] # header /\ s[i] # <<>> /\ s[i][1] = id})

\* no two data rows of a sheet carry the same id
UniqueIds(s) ==
  \A i, j \in 1..Len(s) :
    (i # j /\ s[i] # header /\ s[j] # header /\ s[i] # <<>> /\ s[j] # <<>>)
      => s[i][1] # s[j][1]

\* the header row occurs in first position only
HeaderFirstOnly(s) == \A i \in 1..Len(s) : s[i] = header => i = 1

\* a text with no number in it: no amount can be extracted from it
NoNumber(text) == \A i \in 1..Len(text) : text[i] \notin DOMAIN NumVal

\* slot r is in the middle of an admission
InFlight(r) == req[r].pc # "idle"

\* C1: an admission of a raw input (sender, body, received_at) that was
\* admitted before appends nothing: it does not go on to the append calls,
\* it is answered "duplicate" (unless the read itself raised), and the
\* ledger holds exactly one row with its id.
C1_Idempotent ==
  /\ \A r \in Reqs : InFlight(r) => ~req[r].prior
  /\ (sms.status # "none" /\ sms.prior) =>
       /\ IdCount(sheet, sms.id) = 1
       /\ sms.status = "duplicate" \/ (sms.status = "500" /\ sms.storeFail)

\* C2: no two data rows of the ledger carry the same id, whatever the
\* interleaving of the admissions.
C2_UniqueIds == UniqueIds(sheet)

\* C3: an admission during which the store failed ends with an error
\* answer and leaves the ledger uncorrupted: a step of an admission whose
\* read failed on a ledger that held rows, or whose append fails, gives no
\* success answer, adds no header row behind the first row and no second
\* row with a stored id, and a failing append writes nothing.
C3_StoreFailureSafe ==
  [][\A r \in Reqs :
       (req'[r] # req[r] /\ (req[r].hidRows \/ sms'.hidRows
                               \/ (sms'.storeFail /\ ~req[r].storeFail)))
         => /\ sms'.status \notin {"ok", "duplicate"}
            /\ HeaderFirstOnly(sheet) => HeaderFirstOnly(sheet')
            /\ UniqueIds(sheet) => UniqueIds(sheet')
            /\ (sms'.storeFail /\ ~req[r].storeFail) => sheet' = sheet]_vars

\* C4: an admission whose notification failed (request error or non-2xx
\* status) still answers "ok", and its row is in the ledger.
C4_NotifierSwallowed ==
  sms.notify \in {"reqerr", "httperr"} =>
    sms.status = "ok" /\ IdCount(sheet, sms.id) >= 1

\* C5: an admission of a body without amount ends in the step that receives
\* it, with an error answer (400, or 403 / 500 when the sender or the read
\* stops it earlier); that step leaves the ledger and the requests in flight
\* as they were and sends no notification, and no request in flight ever
\* carries such a body.
C5_NoAmountRejected ==
  [][/\ \A r \in Reqs : InFlight(r)' => ~NoNumber(req'[r].row[10])
     /\ (sms'.status # "none" /\ NoNumber(sms'.body)) =>
          /\ sms'.status \in {"400", "403", "500"}
          /\ sms'.notify = "none"
          /\ sheet' = sheet
          /\ req' = req]_vars

\* C5 witness: a body without amount was rejected with 400 after a failed
\* read, on a ledger that holds rows
C5_Witness ==
  /\ sms.status = "400"
  /\ NoNumber(sms.body)
  /\ sms.storeFail
  /\ sheet # <<>>

RECURSIVE SumSeq(_)
\* the sum of a sequence of numbers
SumSeq(q) == IF q = <<>> THEN 0 ELSE Head(q) + SumSeq(Tail(q))

\* the sum of f(row) over the rows of a sheet
SumRows(s, f(_)) == SumSeq([i \in 1..Len(s) |-> f(s[i])])

\* the amount a data row written by an admission carries, 0 for the header
AdmittedAmount(row) == IF row = header THEN 0 ELSE float(row[3])

\* the calendar day of an instant
Day(t) == t \div DayLen

\* the amount of a debit row stamped with an instant of the given day, else 0
DebitOfDay(row, day) ==
  IF /\ row # header
     /\ Len(row) >= 5
     /\ row[5] = <<"debit">>
     /\ fromisoformat(row[2]).kind = "aware"
     /\ Day(fromisoformat(row[2]).at) = day
     /\ float(row[3]) # NoneAmount
    THEN float(row[3])
    ELSE 0

\* the update just handled was answered with the report over the given days,
\* computed from a successful read of the ledger
Reported(days) ==
  /\ tg.handled
  /\ tg.reply = "report"
  /\ tg.readOutcome = "ok"
  /\ tg.report.days = days

\* every data row of the ledger is a debit row
AllDebit ==
  \A i \in 1..Len(sheet) : sheet[i] # header => sheet[i][5] = <<"debit">>

\* C6: when all rows of the ledger are debits admitted on the current day,
\* the today report shows a spend total equal to the sum of their amounts.
C6_Conservation ==
  (Reported(1) /\ AllDebit /\ admitDays \subseteq {Day(now)}) =>
    tg.report.total_debit = SumRows(sheet, AdmittedAmount)

\* C7: the spend total of the today report is the sum of the debit amounts
\* of exactly the rows whose calendar day is the current day.
C7_TodayIsCalendarDay ==
  Reported(1) =>
    LET today(row) == DebitOfDay(row, Day(now))
    IN tg.report.total_debit = SumRows(sheet, today)

\* the ledger holds no data row
NoDataRows == \A i \in 1..Len(sheet) : sheet[i] = header

\* C9: a report computed from a ledger without data rows, or from the empty
\* sequence read_all_rows returns on a store error, is the default one
\* (income 0, spend 0, net 0, no transaction), and calc_report raises
\* nothing; only a failing notifier makes the update end in an error.
C9_EmptyLedgerDefault ==
  (tg.handled /\ (tg.readOutcome = "HttpError"
                  \/ (tg.readOutcome = "ok" /\ NoDataRows))) =>
    /\ tg.reply = "report"
    /\ tg.report.raised = "none"
    /\ tg.report.total_credit = 0
    /\ tg.report.total_debit = 0
    /\ tg.report.total_net = 0
    /\ tg.report.transactions_count = 0
    /\ tg.result = "error" <=> tg.sent = "httperr"

\* C9 witness: the read failed on a ledger whose rows would have made the
\* week report show a spend
C9_Witness ==
  /\ tg.handled
  /\ tg.readOutcome = "HttpError"
  /\ tg.reply = "report"
  /\ calc_report(sheet, now, 7).total_debit > 0

\* the update just handled is the cancel command of the configured chat
CancelHandled(t) ==
  /\ t.handled
  /\ t.has_message
  /\ t.chat_id = TELEGRAM_CHAT_ID
  /\ lower(t.text) = <<"/cancel">>

\* the last row of a sheet removed
DeleteLast(s) == SubSeq(s, 1, Len(s) - 1)

WellFormed(row) ==
  /\ Len(row) >= 5
  /\ fromisoformat(row[2]).kind = "aware"
  /\ float(row[3]) # NoneAmount
  /\ row[5] \in {<<"debit">>, <<"credit">>}

\* the amount a well-formed row of the given type adds to a report whose
\* window starts at start_date
Counted(row, type, start_date) ==
  IF WellFormed(row) /\ row[5] = type /\ fromisoformat(row[2]).at >= start_date
    THEN float(row[3])
    ELSE 0

\* C8: whatever rows the ledger holds, calc_report returns a report; the
\* malformed rows add to no total and not to the transaction count, the
\* well-formed rows of the window are all aggregated.
C8_ReportTotal ==
  (tg.handled /\ tg.readOutcome = "ok") =>
    LET start_date == now - tg.report.days * DayLen
        debit(row) == Counted(row, <<"debit">>, start_date)
        credit(row) == Counted(row, <<"credit">>, start_date)
        one(row) == IF debit(row) + credit(row) > 0 THEN 1 ELSE 0
    IN /\ tg.report.raised = "none"
       /\ tg.reply = "report"
       /\ tg.report.total_debit = SumRows(sheet, debit)
       /\ tg.report.total_credit = SumRows(sheet, credit)
       /\ tg.report.transactions_count = SumRows(sheet, one)

\* the rows of a sheet, as a set
Rows(s) == {s[i] : i \in 1..Len(s)}

\* sheet s is an initial segment of sheet t
IsPrefix(s, t) == Len(s) <= Len(t) /\ SubSeq(t, 1, Len(s)) = s

\* slots q and r hold admissions of distinct messages whose reads succeeded
\* and returned the same snapshot (rows are only ever added at the end, so
\* two reads of the same length returned the same rows)
SameSnapshot(q, r) ==
  /\ q # r
  /\ InFlight(q) /\ InFlight(r)
  /\ ~req[q].storeFail /\ ~req[r].storeFail
  /\ req[q].snap = req[r].snap
  /\ req[q].row[1] # req[r].row[1]

\* slot r ends in this step because one of its own calls to Sheets or to
\* Telegram failed
OwnCallFailed(r) ==
  \/ req[r].pc \in {"hdr", "append"} /\ sms'.status = "500" /\ sheet' = sheet
  \/ req[r].pc = "notify" /\ sms'.status = "500" /\ sms'.notify = "httperr"

\* C11: no lost updates.  Every step keeps the rows the ledger held, in
\* place; an admission that has made its append has its row in the ledger,
\* whatever the other admissions in flight read or wrote; and an admission
\* in flight ends with "ok" unless one of its own calls failed, so that
\* two admissions of distinct messages that read the same snapshot both
\* succeed and both rows are in the ledger beside the rows held before.
C11_NoLostUpdates ==
  [][/\ IsPrefix(sheet, sheet')
     /\ \A r \in Reqs :
          /\ req'[r].pc = "notify" => req'[r].row \in Rows(sheet')
          /\ (InFlight(r) /\ ~InFlight(r)') =>
               \/ sms'.status = "ok" /\ req[r].row \in Rows(sheet')
               \/ OwnCallFailed(r)]_vars

\* C11 witness: two admissions of distinct messages that read the same
\* snapshot have both made their append, and both rows are in the ledger
C11_Witness ==
  /\ SameSnapshot(1, 2)
  /\ req[1].pc = "notify" /\ req[2].pc = "notify"
  /\ req[1].row \in Rows(sheet) /\ req[2].row \in Rows(sheet)
  /\ req[1].row # req[2].row

\* the step is the append call slot r is about to make, carried out
AppendBy(r) ==
  \/ req[r].pc = "hdr" /\ sheet' = Append(sheet, header)
  \/ req[r].pc = "append" /\ sheet' = Append(sheet, req[r].row)

\* C12: the ledger is append-only.  A step that changes the ledger is an
\* append call of an admission and adds one row below the rows held, which
\* stay as they were and in their order; the steps of the chat commands
\* and of the status endpoint leave the ledger as it was.
C12_AppendOnly ==
  [][/\ sheet' # sheet =>
          /\ Len(sheet') = Len(sheet) + 1
          /\ \A i \in 1..Len(sheet) : sheet'[i] = sheet[i]
          /\ \E r \in Reqs : AppendBy(r) /\ req'[r].pc # req[r].pc
     /\ (tg' # tg \/ root' # root) => sheet' = sheet]_vars

\* C12 witness: a chat command was answered with a report on a ledger that
\* holds the header and the rows of two admissions
C12_Witness ==
  /\ tg.handled
  /\ tg.reply = "report"
  /\ Len(sheet) >= 3
  /\ sheet[1] = header
  /\ sheet[Len(sheet) - 1] # header
  /\ sheet[Len(sheet)] # header

\* the row lies in the window that starts at start_date: it has its five
\* cells, a timestamp with offset not before start_date, a numeric amount
InWindow(row, start_date) ==
  /\ Len(row) >= 5
  /\ fromisoformat(row[2]).kind = "aware"
  /\ fromisoformat(row[2]).at >= start_date
  /\ float(row[3]) # NoneAmount

\* the amount of the row if it lies in the window and is of the type, else 0
AmountOfType(row, type, start_date) ==
  IF InWindow(row, start_date) /\ row[5] = type THEN float(row[3]) ELSE 0

\* the rows of a sheet that are of type debit
DebitRows(s) ==
  LET isDebit(row) == Len(row) >= 5 /\ row[5] = <<"debit">>
  IN SelectSeq(s, isDebit)

\* C13: in a report the spend is the sum of the amounts of the debit rows
\* of the window, the income the sum of the credit rows of the window, the
\* net the income less the spend; the spend is what it would be with every
\* row of another type taken out of the ledger.
C13_OnlyDebitsSpend ==
  (tg.handled /\ tg.reply = "report" /\ tg.readOutcome = "ok") =>
    LET start_date == now - tg.report.days * DayLen
        debit(row) == AmountOfType(row, <<"debit">>, start_date)
        credit(row) == AmountOfType(row, <<"credit">>, start_date)
    IN /\ tg.report.total_debit = SumRows(sheet, debit)
       /\ tg.report.total_credit = SumRows(sheet, credit)
       /\ tg.report.total_net = tg.report.total_credit - tg.report.total_debit
       /\ tg.report.total_debit
            = calc_report(DebitRows(sheet), now, tg.report.days).total_debit

\* C13 witness: a report on a ledger that holds a debit and a credit of the
\* window, with a spend and an income that differ
C13_Witness ==
  /\ tg.handled
  /\ tg.reply = "report"
  /\ tg.readOutcome = "ok"
  /\ tg.report.total_debit > 0
  /\ tg.report.total_credit > 0
  /\ tg.report.total_debit # tg.report.total_credit

\* C14: the header row occurs at most once in the ledger, and only as its
\* first row.
C14_HeaderOnce ==
  /\ Cardinality({i \in 1..Len(sheet) : sheet[i] = header}) <= 1
  /\ \A i \in 2..Len(sheet) : sheet[i] # header

\* number of data rows of a sheet
DataRowCount(s) == Cardinality({i \in 1..Len(s) : s[i] # header})

\* number of admissions that made their append and are about to notify
Pending(rq) == Cardinality({r \in Reqs : rq[r].pc = "notify"})

\* C15: a notification is sent by an admission whose row is in the ledger,
\* and by no other: each send_telegram call of sms_webhook is the step of a
\* request that has appended its row; every appended data row has had its
\* one notification attempt or its admission is about to make it; the
\* answers 403, 400, duplicate and every 500 that is not the notifier's own
\* failure come without a notification.
C15_NotifyAfterAppend ==
  [][/\ notified' + Pending(req') = DataRowCount(sheet')
     /\ notified' # notified =>
          /\ notified' = notified + 1
          /\ \E r \in Reqs :
               /\ req[r].pc = "notify" /\ req'[r].pc = "idle"
               /\ req[r].row \in Rows(sheet)
               /\ sms'.id = req[r].row[1]
               /\ sms'.notify # "none"
     /\ sms'.notify # "none" =>
          /\ notified' = notified + 1
          /\ sms'.status \in {"ok", "500"}
          /\ IdCount(sheet', sms'.id) >= 1
     /\ (sms'.status \in {"403", "400", "duplicate"}
         \/ (sms'.status = "500" /\ sms'.notify # "httperr")) =>
          sms'.notify = "none"]_vars

\* C15 witness: the second of two admissions has sent its notification;
\* the ledger holds the two rows and two notifications were attempted
C15_Witness ==
  /\ sms.status = "ok"
  /\ sms.notify = "sent"
  /\ IdCount(sheet, sms.id) >= 1
  /\ notified = 2
  /\ DataRowCount(sheet) = 2

\* the sender holds one of the configured allowed senders, case apart
Matches(list, sender) ==
  \E k \in 1..Len(list) :
    list[k] # <<>> /\ contains(lower(list[k]), lower(sender))

\* C16: an admission whose sender holds none of the allowed senders (any
\* sender when the list is empty) is answered 403 in the step that receives
\* it, whatever the ledger read would have done, and that step changes
\* neither the ledger nor the requests in flight; every request in flight
\* and every data row of the ledger carries a sender that matches the list.
C16_SenderAllowList ==
  [][/\ (sms'.status # "none" /\ ~Matches(allowed, sms'.sender)) =>
          /\ sms'.status = "403"
          /\ ~sms'.storeFail
          /\ sms'.notify = "none"
          /\ sheet' = sheet
          /\ req' = req
     /\ sms'.status = "403" => ~Matches(allowed, sms'.sender)
     /\ \A r \in Reqs : InFlight(r)' => Matches(allowed, req'[r].row[9])
     /\ \A i \in 1..Len(sheet') :
          sheet'[i] # header => Matches(allowed, sheet'[i][9])]_vars

\* C16 witness: a sender outside the list was answered 403 on a ledger that
\* holds a row written for a sender that matches the list in another case
C16_Witness ==
  /\ sms.status = "403"
  /\ sms.sender = <<"x">>
  /\ allowed = << <<"SB">> >>
  /\ \E i \in 1..Len(sheet) : sheet[i] # header /\ sheet[i][9] = <<"sb">>

\* the update comes from the configured chat
FromAdmin(t) == t.has_message /\ t.chat_id = TELEGRAM_CHAT_ID

\* C17: an update without message or from another chat reads no ledger,
\* computes no report, sends nothing and is acknowledged with ok; an update
\* from the configured chat, when the ledger read does not fail, has one
\* message sent for it: the help text, a report or the unknown-command
\* reply.
C17_ChatAuthorization ==
  tg.handled =>
    /\ ~FromAdmin(tg) =>
         /\ tg.readOutcome = "none"
         /\ tg.report = NoReport
         /\ tg.reply = "none"
         /\ tg.sent = "none"
         /\ tg.result = "ok"
    /\ (FromAdmin(tg) /\ tg.readOutcome # "TransportError") =>
         /\ tg.reply \in {"help", "report", "unknown"}
         /\ tg.sent # "none"

====
